---- MODULE Spec2Model ----
(***************************************************************************)
(* DocHive retrieval-and-answer agent: the LangGraph workflow of           *)
(* backend/services/search_agent.py, the planner of                        *)
(* backend/services/intent_router.py and the two streaming endpoints of    *)
(* backend/api/v1/qa.py (ask_question_agent_stream, clarify_question_agent)*)
(*                                                                         *)
(* A request is served by one event generator.  Every graph node is one    *)
(* action: the node function, the channel update LangGraph applies to the  *)
(* value the node returns, the edge taken, and the events the generator    *)
(* yields for that step.  External collaborators (LLM, search backend,     *)
(* relational store) answer nondeterministically from small sets, or raise.*)
(***************************************************************************)
EXTENDS Integers, Sequences, FiniteSets, TLC

VARIABLES
    pc,                   \* position of the event generator / graph
    kind,                 \* "none" | "ask" | "clarify": endpoint serving the request
    st,                   \* RetrievalState: the channel values of the running graph
    trace,                \* nodes executed by the current run, in order
    events,               \* SSE events yielded by the current request, in order
    failed,               \* external calls that raised during the current run
    calls,                \* chat completions requested by answer synthesis
    graph_state_storage,  \* session store: session_id -> stored state
    paused,               \* session ids whose run ended with an ambiguity event
    asks,                 \* number of ask requests started (uuid source)
    req_sid,              \* session_id of the request being served
    store_log             \* writes to entries of the session store, in order

vars == <<pc, kind, st, trace, events, failed, calls, graph_state_storage,
          paused, asks, req_sid, store_log>>

----------------------------------------------------------------------------
(* Bounds of the exploration *)

\* document ids known to the collaborators are 1..MaxDoc
MaxDoc == 12
\* ask requests served one after the other
MaxAsks == 1
\* iteration orders tried for a Python set (rotations of the ascending order)
MaxRot == 1
MaxFailures == 1

(* Program constants *)

\* es_fulltext_retrieval: "size": 20
EsSize == 20
\* merge_retrieval_results: merged_ids[:10]
TopK == 10
\* merge_retrieval_results: len(intersection) >= 3
IntersectionCutoff == 3
\* refined_filtering: "size": 5
RefineSize == 5
\* generate_answer: config.get("rag_max_length", 10000)
RagMaxLength == 10000

DocIds == 1..MaxDoc

----------------------------------------------------------------------------
(* Generic helpers: Python dict / list / set idioms *)

None == "None"

\* dict.get(key, default)
Get(d, k, default) == IF k \in DOMAIN d THEN d[k] ELSE default

\* d updated with the items of u (u wins)
Update(d, u) == [k \in (DOMAIN d) \cup (DOMAIN u) |->
                    IF k \in DOMAIN u THEN u[k] ELSE d[k]]

Min(a, b) == IF a < b THEN a ELSE b

\* xs[:n]
Take(xs, n) == SubSeq(xs, 1, Min(n, Len(xs)))

Range(xs) == {xs[i] : i \in 1..Len(xs)}

\* [x for x in xs if x in S]
RECURSIVE FilterIn(_, _)
FilterIn(xs, S) ==
    IF xs = <<>> THEN <<>>
    ELSE IF Head(xs) \in S THEN <<Head(xs)>> \o FilterIn(Tail(xs), S)
         ELSE FilterIn(Tail(xs), S)

\* the ascending enumeration of a finite set of integers
RECURSIVE Ascending(_)
Ascending(S) ==
    IF S = {} THEN <<>>
    ELSE LET m == CHOOSE x \in S : \A y \in S : x <= y
         IN <<m>> \o Ascending(S \ {m})

\* list(S) / "for id in S": CPython enumerates a set of small integers in
\* hash-slot order, i.e. ascending order rotated at the table size; r selects
\* the rotation.
SetToList(S, r) ==
    LET a == Ascending(S)
        n == Len(a)
        k == IF n = 0 THEN 0 ELSE r % n
    IN SubSeq(a, k + 1, n) \o SubSeq(a, 1, k)

Rotations == 0..MaxRot

----------------------------------------------------------------------------
(* Documents.  A text is a sequence of one-character strings.  A content   *)
(* is a text followed by `pad` blanks: its length is Len(text) + pad and    *)
(* the blanks vanish in normalize_text, so long contents stay small here.   *)

Alphabet == <<"a", "b", "c", "d", "e", "f", "g", "h", "A", "B", " ", "!",
              "<", ">", "0", "1", "2", "3", "4", "5", "6", "7", "8", "9">>

CharCode(c) == CHOOSE i \in 1..Len(Alphabet) : Alphabet[i] = c

\* str.lower() on one character
Lower(c) == IF c = "A" THEN "a" ELSE IF c = "B" THEN "b" ELSE c

\* \w of the re module: letters, digits, underscore
IsWord(c) == c \notin {" ", "!", "<", ">"}

Digit(n) == Alphabet[15 + n]

\* len(content)
ContentLen(content) == Len(content.text) + content.pad

\* The stored corpus: Document.content_text of document id.
\* 1 and 2 normalize to the same text (2 is the longer raw content), 3 has
\* no content, 4 normalizes to nothing, 5 and 6 are near copies of each
\* other and carry long contents, 7 carries a long content too, 11 is a
\* second upload of 1, 12 is a near copy of 5 but not of 6 and the longest of
\* the three, and every other document from 7 on is unlike the rest.
ContentOf(id) ==
    CASE id = 1 -> [text |-> <<"a", "b", "c", "d", "e", "f">>, pad |-> 0]
      [] id = 2 -> [text |-> <<"A", "b", "c", " ", "d", "e", "f">>, pad |-> 0]
      [] id = 3 -> [text |-> <<>>, pad |-> 0]
      [] id = 4 -> [text |-> <<"!">>, pad |-> 1]
      [] id = 5 -> [text |-> <<"a", "b", "c", "d", "e", "f", "g", "h", "a", "b">>,
                    pad |-> 6000]
      [] id = 6 -> [text |-> <<"a", "b", "c", "d", "e", "f", "g", "h", "a">>,
                    pad |-> 6000]
      [] id = 11 -> [text |-> <<"a", "b", "c", "d", "e", "f">>, pad |-> 0]
      [] id = 12 -> [text |-> <<"c", "d", "e", "f", "g", "h", "a", "b", "c">>,
                     pad |-> 6002]
      [] OTHER  -> [text |-> <<"d", "g", "h", Digit(id \div 10), Digit(id % 10)>>,
                    pad |-> IF id = 7 THEN 6000 ELSE 0]

\* a result dict {"document_id", "title", "content", "metadata"}
ResultOf(id) == [document_id |-> id, content |-> ContentOf(id)]

\* _convert_docs_to_results(documents); a loaded Document is held by its id
_convert_docs_to_results(documents) ==
    [i \in 1..Len(documents) |-> ResultOf(documents[i])]

\* [doc.get("document_id") for doc in results]
IdsOf(results) == [i \in 1..Len(results) |-> results[i].document_id]

----------------------------------------------------------------------------
(* Similarity toolkit *)

\* re.sub(r"<[^>]+>", "", text): drop every "<", one or more non-">", ">"
RECURSIVE StripTags(_)
StripTags(xs) ==
    IF xs = <<>> THEN <<>>
    ELSE IF Head(xs) = "<"
              /\ \E j \in 3..Len(xs) :
                    xs[j] = ">" /\ \A k \in 2..(j - 1) : xs[k] # ">"
         THEN LET j == CHOOSE j \in 3..Len(xs) :
                          xs[j] = ">" /\ \A k \in 2..(j - 1) : xs[k] # ">"
              IN StripTags(SubSeq(xs, j + 1, Len(xs)))
         ELSE <<Head(xs)>> \o StripTags(Tail(xs))

\* text.lower(), then re.sub(r"[^\w\u4e00-\u9fa5]+", "", text)
RECURSIVE LowerWords(_)
LowerWords(xs) ==
    IF xs = <<>> THEN <<>>
    ELSE IF IsWord(Head(xs)) THEN <<Lower(Head(xs))>> \o LowerWords(Tail(xs))
         ELSE LowerWords(Tail(xs))

\* normalize_text(content).  The alphabet holds no "#", "[" or "(", so the
\* Markdown substitutions change nothing; blanks (the pad) are not \w.
normalize_text(content) ==
    IF ContentLen(content) = 0 THEN <<>>
    ELSE LowerWords(StripTags(content.text))

\* compute_strong_hash: SHA256, taken to be free of collisions
compute_strong_hash(text) == text

RECURSIVE TextCode(_)
TextCode(text) ==
    IF text = <<>> THEN 7
    ELSE (31 * TextCode(SubSeq(text, 1, Len(text) - 1))
            + CharCode(text[Len(text)])) % 65521

\* compute_simhash(text, 64): a normalized text holds no blank, so split()
\* yields one token and the fingerprint is the low 64 bits of its MD5.  The
\* digest is stood for by a 16-bit code of the text, repeated to fill the
\* fingerprint, so that different texts lie more than HammingMax bits apart,
\* as MD5 digests do; the fingerprint is the set of its one-bits.
HashBits == 64
compute_simhash(text) ==
    IF text = <<>> THEN {}
    ELSE LET digest == TextCode(text)
         IN {i \in 0..(HashBits - 1) : (digest \div 2^(i % 16)) % 2 = 1}

\* hamming_distance(hash1, hash2)
hamming_distance(h1, h2) == Cardinality((h1 \ h2) \cup (h2 \ h1))

\* compute_shingles(text, k)
ShingleK == 5
compute_shingles(text, k) ==
    IF Len(text) < k THEN {text}
    ELSE {SubSeq(text, i, i + k - 1) : i \in 1..(Len(text) - k + 1)}

\* jaccard_similarity as the pair <<|intersection|, |union|>>; 0.0 is <<0, 1>>
jaccard_similarity(s1, s2) ==
    IF s1 = {} \/ s2 = {} THEN <<0, 1>>
    ELSE <<Cardinality(s1 \cap s2), Cardinality(s1 \cup s2)>>

\* SequenceMatcher.find_longest_match: the longest common block, the
\* earliest in a, then the earliest in b; <<i, j, size>>
find_longest_match(a, alo, ahi, b, blo, bhi) ==
    LET blocks == {<<i, j, n>> \in (alo..ahi) \X (blo..bhi) \X (1..Len(a)) :
                      /\ i + n - 1 <= ahi
                      /\ j + n - 1 <= bhi
                      /\ SubSeq(a, i, i + n - 1) = SubSeq(b, j, j + n - 1)}
    IN IF blocks = {} THEN <<alo, blo, 0>>
       ELSE CHOOSE m \in blocks : \A o \in blocks :
                \/ m[3] > o[3]
                \/ m[3] = o[3] /\ m[1] < o[1]
                \/ m[3] = o[3] /\ m[1] = o[1] /\ m[2] <= o[2]

\* SequenceMatcher.get_matching_blocks: total size of the matching blocks
RECURSIVE MatchSize(_, _, _, _, _, _)
MatchSize(a, alo, ahi, b, blo, bhi) ==
    IF alo > ahi \/ blo > bhi THEN 0
    ELSE LET m == find_longest_match(a, alo, ahi, b, blo, bhi)
         IN IF m[3] = 0 THEN 0
            ELSE m[3] + MatchSize(a, alo, m[1] - 1, b, blo, m[2] - 1)
                      + MatchSize(a, m[1] + m[3], ahi, b, m[2] + m[3], bhi)

\* SequenceMatcher(None, a, b).ratio() as the pair <<2 * matches, total>>
SequenceRatio(a, b) == <<2 * MatchSize(a, 1, Len(a), b, 1, Len(b)), Len(a) + Len(b)>>

\* the feature dict deduplicate_documents builds for one result
Features(doc) ==
    LET normalized == normalize_text(doc.content)
    IN [document_id |-> doc.document_id,
        content     |-> doc.content,
        normalized  |-> normalized,
        strong_hash |-> compute_strong_hash(normalized),
        simhash     |-> compute_simhash(normalized),
        shingles    |-> compute_shingles(normalized, ShingleK)]

\* thresholds of should_remove_duplicate
HammingMax == 3

\* variant: of two documents of equal length the first is removed
shorter_or_first(doc_a, doc_b) ==
    IF ContentLen(doc_a.content) <= ContentLen(doc_b.content)
    THEN {doc_a.document_id} ELSE {doc_b.document_id}

\* variant: "keep the shorter"
longer_of(doc_a, doc_b) ==
    IF ContentLen(doc_a.content) < ContentLen(doc_b.content)
    THEN {doc_b.document_id} ELSE {doc_a.document_id}

\* "keep the longer": what should_remove_duplicate returns for a duplicate
ShorterOf(doc_a, doc_b) ==
    IF ContentLen(doc_a.content) < ContentLen(doc_b.content)
    THEN {doc_a.document_id} ELSE {doc_b.document_id}

\* should_remove_duplicate(doc_a, doc_b): the id to remove as a one-element
\* set, or None as the empty set
should_remove_duplicate(doc_a, doc_b) ==
    LET jac   == jaccard_similarity(doc_a.shingles, doc_b.shingles)
        ratio == SequenceRatio(doc_a.normalized, doc_b.normalized)
    IN IF doc_a.strong_hash = doc_b.strong_hash THEN ShorterOf(doc_a, doc_b)
       ELSE IF hamming_distance(doc_a.simhash, doc_b.simhash) <= HammingMax
            THEN ShorterOf(doc_a, doc_b)
       \* jac_sim > 0.75
       ELSE IF 4 * jac[1] > 3 * jac[2] THEN ShorterOf(doc_a, doc_b)
       \* 0.5 < jac_sim <= 0.75 and ratio > 0.80
       ELSE IF 2 * jac[1] > jac[2] /\ 5 * ratio[1] > 4 * ratio[2]
            THEN ShorterOf(doc_a, doc_b)
       ELSE {}

\* variant: the loops stop at the first duplicate they find
RECURSIVE first_duplicate_only(_, _, _, _)
first_duplicate_only(fs, i, j, removed) ==
    IF i > Len(fs) \/ removed # {} THEN removed
    ELSE IF j > Len(fs) THEN first_duplicate_only(fs, i + 1, i + 2, removed)
    ELSE first_duplicate_only(fs, i, j + 1,
                              removed \cup should_remove_duplicate(fs[i], fs[j]))

\* the loops of deduplicate_documents over doc_features: removed_ids after
\* the pair (i, j) and every later pair has been looked at
RECURSIVE DedupLoop(_, _, _, _)
DedupLoop(fs, i, j, removed) ==
    IF i > Len(fs) THEN removed
    \* doc i is skipped when it is removed as its loop starts, not later
    ELSE IF (j = i + 1 /\ fs[i].document_id \in removed) \/ j > Len(fs)
         THEN DedupLoop(fs, i + 1, i + 2, removed)
    ELSE IF fs[j].document_id \in removed THEN DedupLoop(fs, i, j + 1, removed)
    ELSE LET remove_id == should_remove_duplicate(fs[i], fs[j])
         IN DedupLoop(fs, i, j + 1,
                      removed \cup remove_id)

RECURSIVE SelectSeq2(_, _)
SelectSeq2(xs, keep) ==
    IF xs = <<>> THEN <<>>
    ELSE IF Head(xs).document_id \in keep THEN <<Head(xs)>> \o SelectSeq2(Tail(xs), keep)
         ELSE SelectSeq2(Tail(xs), keep)

\* the documents deduplicate_documents computes features for
RECURSIVE WithText(_)
WithText(results) ==
    IF results = <<>> THEN <<>>
    ELSE IF ContentLen(Head(results).content) # 0
              /\ normalize_text(Head(results).content) # <<>>
         THEN <<Features(Head(results))>> \o WithText(Tail(results))
         ELSE WithText(Tail(results))

\* deduplicate_documents on the list final_results: the list it stores
Deduplicated(results) ==
    LET doc_features == WithText(results)
    IN IF Len(results) <= 1 \/ Len(doc_features) <= 1 THEN results
       ELSE LET removed_ids == DedupLoop(doc_features, 1, 2, {})
            IN SelectSeq2(results, {results[i].document_id : i \in 1..Len(results)}
                                      \ removed_ids)

----------------------------------------------------------------------------
(* RetrievalState and the channels of the compiled graph *)

\* the keys of class RetrievalState: the channels of StateGraph(RetrievalState)
SchemaKeys ==
    {"query", "template_id", "session_id",
     "execution_plan", "reasoning", "tool_results", "need_retrieval",
     "parsed_fields", "rewritten_query",
     "es_fulltext_results", "es_document_ids",
     "class_template_levels", "category", "category_field_code",
     "sql_extracted_conditions", "sql_document_ids",
     "merged_document_ids", "merged_documents", "fusion_strategy",
     "document_type_fields", "refined_conditions", "final_es_query", "final_results",
     "filtered_document_ids", "filtered_results",
     "ambiguity_message", "answer"}

\* LangGraph keeps of a graph input, and of the dict a node returns, the keys
\* that are channels; any other key is dropped
ChannelUpdate(d) == [k \in (DOMAIN d) \cap SchemaKeys |-> d[k]]

\* Optional values: None for class_template_levels, final_es_query and
\* ambiguity_message (a message is a non-empty list of words)
NoLevels == [none |-> TRUE, levels |-> <<>>]
LevelsOf(ls) == [none |-> FALSE, levels |-> ls]
NoQuery == [none |-> TRUE, must |-> {}, ids |-> <<>>]
NoMessage == <<>>

\* initial_state of ask_question_agent_stream
initial_state(question, session_id) ==
    [query |-> question, template_id |-> "tpl", session_id |-> session_id,
     need_tool |-> FALSE, tool_calls |-> <<>>, tool_results |-> <<>>,
     need_retrieval |-> TRUE,
     es_fulltext_results |-> <<>>, es_document_ids |-> {},
     class_template_levels |-> NoLevels, category |-> "*",
     category_field_code |-> None,
     sql_extracted_conditions |-> <<>>, sql_document_ids |-> {},
     merged_document_ids |-> <<>>, merged_documents |-> <<>>,
     fusion_strategy |-> "none",
     document_type_fields |-> <<>>, refined_conditions |-> [dict |-> TRUE, items |-> {}],
     final_es_query |-> NoQuery, final_results |-> <<>>,
     ambiguity_message |-> NoMessage, answer |-> None]

\* a JSON scalar or list used as a field value: a scalar "x" has the one
\* item "x", "" and null have none
Scalar(x) == [list |-> FALSE, items |-> <<x>>]
Empty == [list |-> FALSE, items |-> <<>>]
ListOf(xs) == [list |-> TRUE, items |-> xs]
Truthy(v) == v.items # <<>>
IsUnknown(v) == v = Scalar("UNKNOWN")

----------------------------------------------------------------------------
(* Node 0: task planning (intent_router.function_calling_router) *)

DefaultPlan == <<[step |-> 1, action |-> "document_retrieval"]>>
ToolStep(n) == [step |-> n, action |-> "tool_call", tool_name |-> "get_template_statistics"]
RetrievalStep(n) == [step |-> n, action |-> "document_retrieval"]
OtherStep(n) == [step |-> n, action |-> "summarize"]

\* what the planning completion may return as "execution_plan"
Plans == {<<>>, <<RetrievalStep(1)>>, <<ToolStep(1)>>,
          <<ToolStep(1), RetrievalStep(2)>>, <<OtherStep(1)>>}

PlannerResponses ==
    {[raised |-> TRUE, execution_plan |-> <<>>]}
    \cup {[raised |-> FALSE, execution_plan |-> p] : p \in Plans}

\* step.get("action") == a
HasAction(step, a) == Get(step, "action", None) = a

\* the tool_results the router collects: one per tool_call step, in plan order
RECURSIVE RunTools(_)
RunTools(plan) ==
    IF plan = <<>> THEN <<>>
    ELSE IF HasAction(Head(plan), "tool_call")
         THEN <<[step |-> Head(plan).step, tool_name |-> Head(plan).tool_name,
                 result |-> "result"]>> \o RunTools(Tail(plan))
         ELSE RunTools(Tail(plan))

\* need_retrieval = any(step.get("action") == "document_retrieval" ...)
NeedRetrieval(plan) == \E i \in 1..Len(plan) : HasAction(plan[i], "document_retrieval")

\* a router that hands an empty plan on instead of defaulting to retrieval
router_without_default(resp) ==
    IF resp.raised
    THEN [execution_plan |-> DefaultPlan, reasoning |-> "degraded",
          tool_results |-> <<>>, need_retrieval |-> TRUE]
    ELSE [execution_plan |-> resp.execution_plan,
          reasoning |-> IF resp.execution_plan = <<>> THEN "default" ELSE "llm",
          tool_results |-> RunTools(resp.execution_plan),
          need_retrieval |-> NeedRetrieval(resp.execution_plan)]

\* function_calling_router(query, template_id, db) for the completion resp
function_calling_router(resp) ==
    IF resp.raised
    THEN [execution_plan |-> DefaultPlan, reasoning |-> "degraded",
          tool_results |-> <<>>, need_retrieval |-> TRUE]
    ELSE IF resp.execution_plan = <<>>
    THEN [execution_plan |-> DefaultPlan, reasoning |-> "default",
          tool_results |-> <<>>, need_retrieval |-> TRUE]
    ELSE [execution_plan |-> resp.execution_plan, reasoning |-> "llm",
          tool_results |-> RunTools(resp.execution_plan),
          need_retrieval |-> NeedRetrieval(resp.execution_plan)]

\* intent_routing(state, config): the dict the node returns
intent_routing(state, resp) ==
    LET routing_result == function_calling_router(resp)
    IN Update(state,
              [execution_plan |-> Get(routing_result, "execution_plan", <<>>),
               reasoning      |-> Get(routing_result, "reasoning", ""),
               tool_results   |-> Get(routing_result, "tool_results", <<>>),
               need_retrieval |-> Get(routing_result, "need_retrieval", FALSE)])

\* should_use_tool(state)
should_use_tool(state) ==
    LET execution_plan == Get(state, "execution_plan", <<>>)
    IN IF \E i \in 1..Len(execution_plan) : HasAction(execution_plan[i], "tool_call")
       THEN "tool_answer" ELSE "retrieval"

\* conditional edge of tool_answer:
\* "continue_retrieval" if state.get("need_retrieval", False) else "end"
after_tool_answer(state) ==
    IF Get(state, "need_retrieval", FALSE) THEN "continue_retrieval" ELSE "end"

\* generate_tool_answer(state, config); llm_ok: the formatting completion
\* returned (format_tool_result_as_answer falls back to the JSON dump)
generate_tool_answer(state, llm_ok) ==
    LET tool_answer == IF llm_ok THEN "tool_answer" ELSE "tool_json"
    IN IF Get(state, "need_retrieval", FALSE)
       THEN Update(state, [tool_answer_partial |-> tool_answer])
       ELSE Update(state, [answer |-> tool_answer])

----------------------------------------------------------------------------
(* Node 0.5: query enhancement *)

\* TemplateService.get_template / cls_template.levels
TemplateOutcomes == {"raise", "none", "bad_levels", "ok"}

\* ClassTemplate.levels of the template
TemplateLevels == <<[code |-> "TYPE", is_doc_type |-> TRUE],
                    [code |-> "YEAR", is_doc_type |-> FALSE]>>

\* "fields" of the enhancement completion, a dict held as the set of its
\* items: field code, and field data, which is a dict with a "value" or
\* (malformed) a bare value
Field(code, is_dict, value) == [code |-> code, dict |-> is_dict, value |-> value]
FieldsNone == {}
FieldsYear == {Field("YEAR", TRUE, Scalar("2023"))}
FieldsBlank == {Field("YEAR", TRUE, Empty)}
FieldsList == {Field("YEAR", TRUE, ListOf(<<"2023", "hr">>))}
FieldsFlat == {Field("YEAR", FALSE, Scalar("2023"))}

\* "query_rewrite": missing, "", "  ", a text, or (malformed) a number
EnhancerResponses ==
    {[raised |-> TRUE, fields |-> FieldsNone, query_rewrite |-> "missing"]}
    \cup {[raised |-> FALSE, fields |-> FieldsNone, query_rewrite |-> "missing"],
          [raised |-> FALSE, fields |-> FieldsYear, query_rewrite |-> "number"],
          [raised |-> FALSE, fields |-> FieldsYear, query_rewrite |-> "text"],
          [raised |-> FALSE, fields |-> FieldsBlank, query_rewrite |-> "empty"],
          [raised |-> FALSE, fields |-> FieldsBlank, query_rewrite |-> "blank"]}
    \cup {[raised |-> FALSE, fields |-> f, query_rewrite |-> "text"] :
            f \in {FieldsList, FieldsFlat}}

\* variant: an enhancer that stores the rewrite as the completion gave it
enhancer_keeping_rewrite(state, tpl, resp) ==
    IF tpl # "ok" \/ resp.raised
    THEN Update(state, [parsed_fields |-> {}, rewritten_query |-> state.query])
    ELSE Update(state,
                [parsed_fields   |-> resp.fields,
                 rewritten_query |-> IF resp.query_rewrite = "missing" THEN state.query
                                     ELSE IF resp.query_rewrite = "text"
                                          THEN <<"rewritten">>
                                     ELSE IF resp.query_rewrite = "blank"
                                          THEN <<" ", " ">>
                                     ELSE <<>>])

\* enhance_retrieval_query(state, config); a rewrite that is no string has no
\* strip(): the except clause restores the defaults
enhance_retrieval_query(state, tpl, resp) ==
    LET query == state.query
        defaults == Update(state, [parsed_fields |-> {}, rewritten_query |-> query])
    IN IF tpl # "ok" \/ resp.raised \/ resp.query_rewrite = "number" THEN defaults
       ELSE LET rewritten == IF resp.query_rewrite = "missing" THEN query
                             ELSE IF resp.query_rewrite = "text" THEN <<"rewritten">>
                             ELSE <<>>
                not_empty == rewritten # <<>> /\ resp.query_rewrite # "blank"
            IN Update(state,
                      [parsed_fields   |-> resp.fields,
                       rewritten_query |-> IF not_empty THEN rewritten ELSE query])

----------------------------------------------------------------------------
(* Nodes 1 and 2: the two retrieval channels *)

\* hit lists (document ids, best first) the search backend may answer a
\* full-text query with; at most EsSize hits
EsHitLists ==
    {h \in {<<>>, <<1, 2>>, <<2, 3, 4, 5>>, <<9, 10>>, Ascending(DocIds)} :
        Len(h) <= EsSize}

EsResponses ==
    {[raised |-> TRUE, hits |-> <<>>]}
    \cup {[raised |-> FALSE, hits |-> h] : h \in EsHitLists}

\* the text es_fulltext_retrieval searches for
es_query(state) == Get(state, "rewritten_query", state.query)

\* "".strip(): the text without its blanks at both ends
RECURSIVE Strip(_)
Strip(text) ==
    IF text = <<>> THEN <<>>
    ELSE IF Head(text) = " " THEN Strip(Tail(text))
    ELSE IF text[Len(text)] = " " THEN Strip(SubSeq(text, 1, Len(text) - 1))
    ELSE text

\* es_fulltext_retrieval(state, config)
es_fulltext_retrieval(state, resp) ==
    IF resp.raised
    THEN Update(state, [es_fulltext_results |-> <<>>, es_document_ids |-> {}])
    ELSE Update(state,
                [es_fulltext_results |-> _convert_docs_to_results(resp.hits),
                 es_document_ids     |-> Range(resp.hits)])

\* rows of TemplateDocumentMapping for the template: document_id, class_code
MappedDocs == {id \in DocIds : 2 <= id /\ id <= 8}
ClassCodeOf(id) == IF id <= 4 THEN {"2023", "policy"} ELSE {"hr", "report"}

\* class_code.like(f"%{v}%")
Like(id, v) == v \in ClassCodeOf(id)

\* conditions / category of the structured-extraction completion
SqlLlmResponses ==
    {[raised |-> TRUE, conditions |-> <<>>, category |-> "*"],
     [raised |-> FALSE, conditions |-> <<>>, category |-> "*"],
     [raised |-> FALSE, category |-> "T",
      conditions |-> <<[code |-> "YEAR", value |-> Scalar("2023")],
                       [code |-> "TYPE", value |-> Scalar("UNKNOWN")]>>],
     [raised |-> FALSE, category |-> "T",
      conditions |-> <<[code |-> "YEAR", value |-> Scalar("UNKNOWN")]>>],
     [raised |-> FALSE, category |-> "T",
      conditions |-> <<[code |-> "YEAR", value |-> Scalar("UNKNOWN")],
                       [code |-> "TYPE", value |-> Empty]>>]}

\* the LIKE patterns of the field values vs: every item of a truthy value
ValuesOf(vs) == UNION {Range(v.items) : v \in {v \in vs : Truthy(v)}}

\* variant: the fallback branch turns every non-empty value into a pattern
clauses_with_unknown(parsed_fields, conditions) ==
    IF parsed_fields # {}
    THEN ValuesOf({f.value : f \in parsed_fields})
    ELSE ValuesOf({c.value : c \in Range(conditions)})

\* conditions_clauses of sql_structured_retrieval: the set of LIKE patterns
conditions_clauses(parsed_fields, conditions) ==
    IF parsed_fields # {}
    THEN ValuesOf({f.value : f \in parsed_fields})
    ELSE ValuesOf({c.value : c \in {c \in Range(conditions) : ~IsUnknown(c.value)}})

\* select(document_id).where(template_id == ...).where(or_(*clauses))
SelectMapped(clauses) ==
    IF clauses = {} THEN MappedDocs
    ELSE {id \in MappedDocs : \E v \in clauses : Like(id, v)}

\* sql_structured_retrieval(state, config).  The template lookup is awaited
\* outside any try; field_data.get raises on a field data that is no dict.
sql_structured_retrieval(state, tpl, llm, db_ok) ==
    IF tpl = "raise" THEN [raised |-> TRUE, state |-> state]
    ELSE IF tpl \in {"none", "bad_levels"}
    THEN [raised |-> FALSE,
          state |-> Update(state, [class_template_levels |-> LevelsOf(<<>>), category |-> "*",
                                   sql_extracted_conditions |-> <<>>,
                                   sql_document_ids |-> {}])]
    ELSE LET s1 == Update(state, [class_template_levels |-> LevelsOf(TemplateLevels),
                                  category_field_code |-> "TYPE"])
             s2 == IF llm.raised
                   THEN Update(s1, [category |-> "*", sql_extracted_conditions |-> <<>>])
                   ELSE Update(s1, [category |-> llm.category,
                                    sql_extracted_conditions |-> llm.conditions])
             parsed_fields == Get(s2, "parsed_fields", {})
             clauses == conditions_clauses(parsed_fields, s2.sql_extracted_conditions)
         IN IF \E f \in parsed_fields : ~f.dict
            THEN [raised |-> TRUE, state |-> s2]
            ELSE [raised |-> FALSE,
                  state |-> Update(s2, [sql_document_ids |->
                                IF db_ok THEN SelectMapped(clauses) ELSE {}])]

----------------------------------------------------------------------------
(* Node 3: result fusion *)

\* a strategy choice whose intersection cutoff is one higher
strategy_with_higher_cutoff(es_ids, sql_ids) ==
    IF es_ids = {} /\ sql_ids = {} THEN "none"
    ELSE IF sql_ids = {} THEN "es_only"
    ELSE IF es_ids = {} THEN "sql_only"
    ELSE IF Cardinality(es_ids \cap sql_ids) > IntersectionCutoff THEN "intersection"
    ELSE IF Cardinality(es_ids \cap sql_ids) > 0 THEN "es_primary"
    ELSE "union"

\* fusion_strategy chosen by merge_retrieval_results for the two id sets
fusion_strategy(es_ids, sql_ids) ==
    IF es_ids = {} /\ sql_ids = {} THEN "none"
    ELSE IF sql_ids = {} THEN "es_only"
    ELSE IF es_ids = {} THEN "sql_only"
    ELSE IF Cardinality(es_ids \cap sql_ids) >= IntersectionCutoff THEN "intersection"
    ELSE IF Cardinality(es_ids \cap sql_ids) > 0 THEN "es_primary"
    ELSE "union"

\* a fusion that lists the full-text ids in their own order, shared or not
merged_in_channel_order(es_ids, sql_ids, r1, r2) ==
    LET strategy == fusion_strategy(es_ids, sql_ids)
    IN CASE strategy = "none" -> <<>>
         [] strategy = "es_only" -> SetToList(es_ids, r1)
         [] strategy = "sql_only" -> SetToList(sql_ids, r1)
         [] strategy = "intersection" -> SetToList(es_ids \cap sql_ids, r1)
         [] strategy = "es_primary" -> SetToList(es_ids, r2)
         [] strategy = "union" -> SetToList(es_ids \cup sql_ids, r1)

\* merged_ids before the cut; r1, r2: the iteration orders of the sets used
merged_ids(es_ids, sql_ids, r1, r2) ==
    LET strategy == fusion_strategy(es_ids, sql_ids)
        intersection == es_ids \cap sql_ids
    IN CASE strategy = "none" -> <<>>
         [] strategy = "es_only" -> SetToList(es_ids, r1)
         [] strategy = "sql_only" -> SetToList(sql_ids, r1)
         [] strategy = "intersection" -> SetToList(intersection, r1)
         [] strategy = "es_primary" ->
                SetToList(intersection, r1)
                \o FilterIn(SetToList(es_ids, r2), es_ids \ intersection)
         [] strategy = "union" ->
                SetToList(es_ids, r1) \o FilterIn(SetToList(sql_ids, r2), sql_ids \ es_ids)

\* a fusion that does not cut the merged ids
merged_uncut(es_ids, sql_ids, r1, r2) == merged_ids(es_ids, sql_ids, r1, r2)

\* merged_ids[:10]
TopMerged(es_ids, sql_ids, r1, r2) == Take(merged_ids(es_ids, sql_ids, r1, r2), TopK)

\* what select(Document).where(Document.id.in_(merged_ids)) may answer: it
\* raises, or yields the rows that exist in the documents table
DocumentTables == {DocIds, DocIds \ {2}}
LoadOutcomes == {[raised |-> TRUE, rows |-> {}]}
                \cup {[raised |-> FALSE, rows |-> t] : t \in DocumentTables}

\* merge_retrieval_results(state, config)
merge_retrieval_results(state, r1, r2, load) ==
    LET es_ids == Get(state, "es_document_ids", {})
        sql_ids == Get(state, "sql_document_ids", {})
        ids == TopMerged(es_ids, sql_ids, r1, r2)
    IN Update(state,
              [fusion_strategy     |-> fusion_strategy(es_ids, sql_ids),
               merged_document_ids |-> ids,
               merged_documents    |->
                   IF ids = <<>> \/ load.raised THEN <<>>
                   ELSE FilterIn(ids, load.rows)])

----------------------------------------------------------------------------
(* Node 4: refinement *)

\* DocumentTypeField rows of the category's document type
DocumentTypeFields == <<[field_name |-> "author", field_type |-> "text"],
                        [field_name |-> "year", field_type |-> "number"],
                        [field_name |-> "issued", field_type |-> "date"]>>

\* loading DocumentType and DocumentTypeField
TypeOutcomes == {"raise", "no_types", "no_fields", "fields"}

\* "conditions" (a dict held as the set of its items field name, value; or
\* malformed: a list) and "missing_fields" of the refinement completion
Cond(field, value) == [field |-> field, value |-> value]
NoConditions == [dict |-> TRUE, items |-> {}]
RefineLlmResponses ==
    {[raised |-> TRUE, conditions |-> NoConditions, missing_fields |-> <<>>],
     [raised |-> FALSE, conditions |-> NoConditions, missing_fields |-> <<"author", "year">>],
     [raised |-> FALSE, conditions |-> NoConditions, missing_fields |-> <<>>],
     [raised |-> FALSE, missing_fields |-> <<>>,
      conditions |-> [dict |-> TRUE, items |-> {Cond("author", Scalar("smith"))}]],
     [raised |-> FALSE, missing_fields |-> <<"year">>,
      conditions |-> [dict |-> TRUE, items |-> {Cond("author", Scalar("UNKNOWN")),
                                                 Cond("issued", Empty)}]],
     [raised |-> FALSE, missing_fields |-> <<>>,
      conditions |-> [dict |-> FALSE, items |-> {Cond("0", Scalar("smith"))}]]}

\* field_map.get(field_name, "text")
FieldType(field_name) ==
    IF \E i \in 1..Len(DocumentTypeFields) : DocumentTypeFields[i].field_name = field_name
    THEN (CHOOSE f \in Range(DocumentTypeFields) : f.field_name = field_name).field_type
    ELSE "text"

\* the ES clause refined_filtering builds for one field type
ClauseKind(field_type) ==
    IF field_type \in {"text", "textarea"} THEN "match"
    ELSE IF field_type = "number" THEN "term"
    ELSE IF field_type = "date" THEN "range"
    ELSE "term"

\* must_clauses of refined_filtering
must_clauses(conditions) ==
    {[kind |-> ClauseKind(FieldType(c.field)), field |-> c.field, value |-> c.value] :
        c \in {c \in conditions : Truthy(c.value) /\ ~IsUnknown(c.value)}}

\* hit lists the search backend may answer the refined query with: documents
\* of the "terms" filter, at most "size" of them
RefineHits(ids, must) ==
    IF must = {} THEN {Take(ids, RefineSize)}
    ELSE {<<>>, Take(ids, 1), Take(ids, RefineSize)}

\* variant: a message that asks for a clarification without naming a field
message_without_fields(missing_fields) == <<"clarify">>

\* the ambiguity message built from missing_fields
AmbiguityMessage(missing_fields) == <<"clarify">> \o missing_fields

\* variant: a refinement that has no candidate left whenever it does not get
\* to the end of its restricted query
refined_without_fallback(state, types, llm, es) ==
    [raised |-> FALSE,
     state |-> Update(state,
        [final_results |->
            IF Get(state, "category", "*") = "*"
            THEN _convert_docs_to_results(Get(state, "merged_documents", <<>>))
            ELSE IF types = "fields" /\ ~llm.raised /\ ~es.raised
                 THEN _convert_docs_to_results(es.hits)
            ELSE <<>>])]

\* refined_filtering(state, config).  conditions.items() raises on a list.
refined_filtering(state, types, llm, es) ==
    LET fused == _convert_docs_to_results(Get(state, "merged_documents", <<>>))
        reset == [document_type_fields |-> <<>>, refined_conditions |-> NoConditions]
    IN IF Get(state, "merged_documents", <<>>) = <<>>
       THEN [raised |-> FALSE,
             state |-> Update(state, Update(reset, [final_es_query |-> NoQuery,
                                                    final_results |-> <<>>]))]
       ELSE IF Get(state, "category", "*") = "*"
       THEN [raised |-> FALSE,
             state |-> Update(state, Update(reset, [final_es_query |-> NoQuery,
                                                    final_results |-> fused]))]
       ELSE IF types \in {"raise", "no_types", "no_fields"}
       THEN [raised |-> FALSE,
             state |-> Update(state, Update(reset, [final_results |-> fused]))]
       ELSE LET s1 == Update(state, [document_type_fields |-> DocumentTypeFields])
            IN IF llm.raised
               THEN [raised |-> FALSE,
                     state |-> Update(s1, [refined_conditions |-> NoConditions,
                                           final_results |-> fused])]
               ELSE LET s2 == Update(s1, [refined_conditions |-> llm.conditions])
                    IN IF llm.conditions.items = {} /\ llm.missing_fields # <<>>
                       THEN [raised |-> FALSE,
                             state |-> Update(s2,
                                 [ambiguity_message |-> AmbiguityMessage(llm.missing_fields),
                                  final_results |-> fused])]
                       ELSE IF llm.conditions.items = {}
                       THEN [raised |-> FALSE,
                             state |-> Update(s2, [final_es_query |-> NoQuery,
                                                   final_results |-> fused])]
                       ELSE IF ~llm.conditions.dict
                       THEN [raised |-> TRUE, state |-> s2]
                       ELSE LET must == must_clauses(llm.conditions.items)
                                q == [none |-> FALSE, must |-> must,
                                      ids |-> state.merged_document_ids]
                                s3 == Update(s2, [final_es_query |-> q])
                            IN [raised |-> FALSE,
                                state |-> Update(s3, [final_results |->
                                    IF es.raised THEN fused
                                    ELSE _convert_docs_to_results(es.hits)])]

\* what the search backend may answer the refined query of this run with
RefineEsResponses(state, llm) ==
    LET must == IF llm.conditions.dict THEN must_clauses(llm.conditions.items) ELSE {}
    IN {[raised |-> TRUE, hits |-> <<>>]}
       \cup {[raised |-> FALSE, hits |-> h] :
                h \in RefineHits(Get(state, "merged_document_ids", <<>>), must)}

----------------------------------------------------------------------------
(* Node 4.5: deduplication; node 4.7: relevance filter *)

\* deduplicate_documents(state, config)
deduplicate_documents(state) ==
    LET results == Get(state, "final_results", <<>>)
    IN IF Len(results) <= 1 THEN state
       ELSE Update(state, [final_results |-> Deduplicated(results)])

\* loading the summaries: it raises, yields no row, or a row per document
SummaryOutcomes == {"raise", "no_rows", "rows"}

\* an id no document has
InventedId == MaxDoc + 1

\* "relevant_document_ids" the relevance completion may return
RelevantIds(ids) ==
    {<<>>, Take(ids, 1), ids, <<ids[1], InventedId>>}

\* filter_documents_by_summary(state, config); llm: [raised, relevant_ids]
filter_documents_by_summary(state, db, llm) ==
    LET results == Get(state, "final_results", <<>>)
        keep_all == Update(state, [filtered_document_ids |-> IdsOf(results),
                                   filtered_results |-> results])
    IN IF Len(results) <= 1 THEN keep_all
       ELSE IF db \in {"raise", "no_rows"} \/ llm.raised THEN keep_all
       ELSE IF llm.relevant_ids = <<>>
       THEN Update(state, [filtered_document_ids |-> <<>>, filtered_results |-> <<>>])
       ELSE Update(state,
                   [filtered_document_ids |-> llm.relevant_ids,
                    filtered_results |-> SelectSeq2(results, Range(llm.relevant_ids))])

\* variant: the pipeline answers whether or not a clarification is pending
never_ask_user(state) == "generate_answer"

\* should_ask_user(state)
should_ask_user(state) ==
    IF Get(state, "ambiguity_message", NoMessage) # NoMessage
    THEN "ask_user" ELSE "generate_answer"

\* handle_ambiguity(state, config)
handle_ambiguity(state) == state

----------------------------------------------------------------------------
(* Node 6: answer synthesis *)

\* sum(len(doc.get("content", "")) for doc in results)
RECURSIVE total_length(_)
total_length(results) ==
    IF results = <<>> THEN 0
    ELSE ContentLen(Head(results).content) + total_length(Tail(results))

\* the results generate_answer answers from
AnswerInput(state) ==
    Get(state, "filtered_results", Get(state, "final_results", <<>>))

\* "direct", "single" or "grouped": the branch generate_answer takes
AnswerMode(state) ==
    IF AnswerInput(state) = <<>> THEN "direct"
    ELSE IF total_length(AnswerInput(state)) <= RagMaxLength THEN "single"
    ELSE "grouped"

\* variant: the first per-document completion that raises ends the synthesis
calls_ended_by_failure(state, bad, final_ok) ==
    [i \in 1..(IF bad = 0 THEN 1 ELSE bad) |->
        [prompt |-> "document", tool |-> FALSE, raised |-> i = bad]]

\* the chat completions generate_answer requests, in order; tool: whether
\* the prompt carries tool_answer_partial; bad: the per-document completion
\* that raises (0: none); final_ok: the last completion returned
SynthesisCalls(state, bad, final_ok) ==
    LET tool == Get(state, "tool_answer_partial", None) # None
        results == AnswerInput(state)
    IN CASE AnswerMode(state) = "direct" ->
                <<[prompt |-> "direct", tool |-> FALSE, raised |-> ~final_ok]>>
         [] AnswerMode(state) = "single" ->
                <<[prompt |-> "single", tool |-> tool, raised |-> ~final_ok]>>
         [] OTHER -> [i \in 1..Len(results) |->
                        [prompt |-> "document", tool |-> FALSE, raised |-> i = bad]]
                     \o <<[prompt |-> "merge", tool |-> tool, raised |-> ~final_ok]>>

\* a synthesis whose failure leaves the exception text as the answer
answer_with_exception_text(state, final_ok) ==
    Update(state, [answer |-> IF final_ok THEN "single_answer" ELSE "exception_text"])

\* generate_answer(state, config); final_ok: the last completion returned
generate_answer(state, final_ok) ==
    Update(state, [answer |->
        CASE AnswerMode(state) = "direct" ->
                IF final_ok THEN "direct_answer_with_note" ELSE "apology_no_documents"
          [] AnswerMode(state) = "single" ->
                IF final_ok THEN "single_answer" ELSE "apology_generate"
          [] OTHER ->
                IF final_ok THEN "merged_answer" ELSE "apology_summarize"])

\* the fixed messages returned when the final completion raises
ApologyMessages == {"apology_no_documents", "apology_generate", "apology_summarize"}

----------------------------------------------------------------------------
(* The compiled graph: entry point and edges *)

\* workflow.set_entry_point
EntryPoint == "intent_routing"

\* the edge taken after node, for the channel values state
NextNode(node, state) ==
    CASE node = "intent_routing" ->
            IF should_use_tool(state) = "tool_answer" THEN "tool_answer"
            ELSE "enhance_query"
      [] node = "tool_answer" ->
            IF after_tool_answer(state) = "continue_retrieval" THEN "enhance_query"
            ELSE "END"
      [] node = "enhance_query" -> "es_fulltext"
      [] node = "es_fulltext" -> "sql_structured"
      [] node = "sql_structured" -> "merge_results"
      [] node = "merge_results" -> "refined_filter"
      [] node = "refined_filter" -> "deduplicate"
      [] node = "deduplicate" -> "filter_summary"
      [] node = "filter_summary" ->
            IF should_ask_user(state) = "ask_user" THEN "ask_user"
            ELSE "generate_answer"
      [] node = "ask_user" -> "END"
      [] node = "generate_answer" -> "END"

----------------------------------------------------------------------------
(* Events of the streaming endpoints *)

Event(event, stage, done) == [event |-> event, stage |-> stage, done |-> done]

StageStart(stage) == Event("stage_start", stage, FALSE)
StageComplete(stage) == Event("stage_complete", stage, FALSE)
ErrorEvent == Event("error", "", TRUE)

\* the execution_plan event: its mode is read from state_data["need_tool"]
ExecutionPlanEvent(state_data) ==
    Event("execution_plan",
          IF Get(state_data, "need_tool", FALSE) THEN "tool_calling"
          ELSE "document_retrieval",
          FALSE)

\* what the loop over astream yields for the step {node_name: state_data}
StepEvents(node_name, state_data) ==
    CASE node_name = "intent_routing" ->
            <<ExecutionPlanEvent(state_data), StageComplete("function_calling")>>
      [] node_name = "tool_answer" -> <<StageComplete("tool_answer")>>
      [] node_name \in {"es_fulltext", "sql_structured", "merge_results",
                        "refined_filter"} ->
            <<StageStart(node_name), StageComplete(node_name)>>
      [] node_name = "generate_answer" -> <<StageStart("generate")>>
      [] OTHER -> <<>>

\* what both endpoints yield after the graph has ended without ambiguity
\* the references event, carrying the document ids it lists
ReferencesEvent(final_results) ==
    [event |-> "references", stage |-> "", done |-> FALSE,
     references |-> IdsOf(final_results)]

AnswerEvents(final_state) ==
    (IF Get(final_state, "final_results", <<>>) # <<>>
     THEN <<ReferencesEvent(final_state.final_results)>> ELSE <<>>)
    \o <<Event("answer", "", FALSE), Event("complete", "", TRUE)>>

----------------------------------------------------------------------------
(* The state machine *)

Init ==
    /\ pc = "idle"
    /\ kind = "none"
    /\ st = <<>>
    /\ trace = <<>>
    /\ events = <<>>
    /\ failed = {}
    /\ calls = <<>>
    /\ graph_state_storage = <<>>
    /\ paused = {}
    /\ asks = 0
    /\ req_sid = 0
    /\ store_log = <<>>

\* a graph step that returned the dict out: channels, edge, events
Returned(node, out, raised_calls) ==
    /\ st' = ChannelUpdate(out)
    /\ pc' = NextNode(node, ChannelUpdate(out))
    /\ trace' = Append(trace, node)
    /\ events' = events \o (IF kind = "ask" THEN StepEvents(node, out) ELSE <<>>)
    /\ failed' = failed \cup raised_calls

\* a graph step whose node raised: astream / ainvoke raise, the generator's
\* except clause yields the error event
Raised(node, raised_calls) ==
    /\ st' = st
    /\ pc' = "done"
    /\ trace' = Append(trace, node)
    /\ events' = Append(events, ErrorEvent)
    /\ failed' = failed \cup raised_calls

\* one graph step; at most MaxFailures external calls fail in one request
Step(node, result, raised_calls) ==
    /\ Cardinality(failed \cup raised_calls) <= MaxFailures
    /\ IF result.raised THEN Raised(node, raised_calls)
       ELSE Returned(node, result.state, raised_calls)

Ok(state) == [raised |-> FALSE, state |-> state]

\* ask_question_agent_stream.event_generator up to the first graph step
StartAsk ==
    /\ pc \in {"idle", "done"}
    /\ asks < MaxAsks
    /\ asks' = asks + 1
    /\ req_sid' = asks + 1
    /\ kind' = "ask"
    /\ trace' = <<>>
    /\ failed' = {}
    /\ calls' = <<>>
    /\ \E setup_ok \in BOOLEAN :
          IF setup_ok
          THEN /\ st' = ChannelUpdate(initial_state(<<"question">>, asks + 1))
               /\ events' = <<Event("thinking", "start", FALSE)>>
               /\ pc' = EntryPoint
          ELSE /\ st' = <<>>
               /\ events' = <<ErrorEvent>>
               /\ pc' = "done"
    /\ UNCHANGED <<graph_state_storage, paused, store_log>>

\* a write to the entry of session_id: "clarify" appends the clarification to
\* the stored query, "delete" removes the entry
StoreWrite(op, session_id) == [op |-> op, session_id |-> session_id]

\* variant: the handler does not look the session up and resumes from a
\* fresh state
clarify_without_lookup ==
    /\ pc \in {"idle", "done"}
    /\ \E session_id \in 1..MaxAsks :
          /\ req_sid' = session_id
          /\ st' = ChannelUpdate(initial_state(<<"question", "clarification">>,
                                               session_id))
          /\ events' = <<Event("thinking", "start", FALSE)>>
          /\ pc' = EntryPoint
    /\ kind' = "clarify"
    /\ trace' = <<>>
    /\ failed' = {}
    /\ calls' = <<>>
    /\ UNCHANGED <<graph_state_storage, store_log, paused, asks>>

\* clarify_question_agent.event_generator up to the graph invocation
StartClarify ==
    /\ pc \in {"idle", "done"}
    /\ \E session_id \in 1..MaxAsks, setup_ok \in BOOLEAN :
          /\ req_sid' = session_id
          /\ IF session_id \notin DOMAIN graph_state_storage
             THEN /\ st' = <<>>
                  /\ events' = <<ErrorEvent>>
                  /\ pc' = "done"
                  /\ UNCHANGED <<graph_state_storage, store_log>>
             ELSE LET stored == graph_state_storage[session_id]
                      cleared == Update(stored,
                                    [query |-> stored.query \o <<"clarification">>,
                                     ambiguity_message |-> NoMessage])
                      stored_state == IF setup_ok
                                      THEN Update(cleared, [es_client |-> "es_client"])
                                      ELSE cleared
                  IN /\ graph_state_storage' =
                            Update(graph_state_storage,
                                   [s \in {session_id} |-> stored_state])
                     /\ store_log' = Append(store_log, StoreWrite("clarify", session_id))
                     /\ IF setup_ok
                        THEN /\ st' = ChannelUpdate(stored_state)
                             /\ events' = <<Event("thinking", "start", FALSE)>>
                             /\ pc' = EntryPoint
                        ELSE /\ st' = <<>>
                             /\ events' = <<ErrorEvent>>
                             /\ pc' = "done"
    /\ kind' = "clarify"
    /\ trace' = <<>>
    /\ failed' = {}
    /\ calls' = <<>>
    /\ UNCHANGED <<paused, asks>>

Frame == UNCHANGED <<kind, calls, graph_state_storage, paused, asks, req_sid,
                   store_log>>

IntentRouting ==
    /\ pc = "intent_routing"
    /\ \E resp \in PlannerResponses :
          Step("intent_routing", Ok(intent_routing(st, resp)),
               IF resp.raised THEN {"planner_llm"} ELSE {})
    /\ Frame

ToolAnswer ==
    /\ pc = "tool_answer"
    /\ \E llm_ok \in BOOLEAN :
          Step("tool_answer", Ok(generate_tool_answer(st, llm_ok)),
               IF llm_ok THEN {} ELSE {"tool_llm"})
    /\ Frame

EnhanceQuery ==
    /\ pc = "enhance_query"
    /\ \E tpl \in TemplateOutcomes, resp \in EnhancerResponses :
          /\ tpl # "ok" => resp.raised
          /\ Step("enhance_query", Ok(enhance_retrieval_query(st, tpl, resp)),
                  IF tpl = "raise" THEN {"enhancer_template"}
                  ELSE IF tpl = "ok" /\ resp.raised THEN {"enhancer_llm"} ELSE {})
    /\ Frame

EsFulltext ==
    /\ pc = "es_fulltext"
    /\ \E resp \in EsResponses :
          Step("es_fulltext", Ok(es_fulltext_retrieval(st, resp)),
               IF resp.raised THEN {"es_search"} ELSE {})
    /\ Frame

SqlStructured ==
    /\ pc = "sql_structured"
    /\ \E tpl \in TemplateOutcomes, llm \in SqlLlmResponses, db_ok \in BOOLEAN :
          /\ tpl # "ok" => (llm.raised /\ db_ok)
          /\ Step("sql_structured", sql_structured_retrieval(st, tpl, llm, db_ok),
                  IF tpl = "raise" THEN {"sql_template"}
                  ELSE IF tpl # "ok" THEN {}
                  ELSE (IF llm.raised THEN {"sql_llm"} ELSE {})
                       \cup (IF db_ok THEN {} ELSE {"sql_query"}))
    /\ Frame

MergeResults ==
    /\ pc = "merge_results"
    /\ \E r1 \in Rotations, r2 \in Rotations, load \in LoadOutcomes :
          Step("merge_results", Ok(merge_retrieval_results(st, r1, r2, load)),
               IF load.raised /\ TopMerged(Get(st, "es_document_ids", {}),
                                           Get(st, "sql_document_ids", {}), r1, r2) # <<>>
               THEN {"merge_load"} ELSE {})
    /\ Frame

RefinedFilter ==
    /\ pc = "refined_filter"
    /\ LET reached == Get(st, "merged_documents", <<>>) # <<>>
                      /\ Get(st, "category", "*") # "*"
       IN \E types \in TypeOutcomes, llm \in RefineLlmResponses :
           \E es \in RefineEsResponses(st, llm) :
             \* outcomes of calls the node does not make are not told apart
             /\ (~reached \/ types # "fields") => llm.raised
             /\ (llm.raised \/ llm.conditions.items = {} \/ ~llm.conditions.dict)
                    => es.raised
             /\ Step("refined_filter", refined_filtering(st, types, llm, es),
                     IF ~reached THEN {}
                     ELSE IF types = "raise" THEN {"refine_fields"}
                     ELSE IF types # "fields" THEN {}
                     ELSE IF llm.raised THEN {"refine_llm"}
                     ELSE IF llm.conditions.items = {} \/ ~llm.conditions.dict THEN {}
                     ELSE IF es.raised THEN {"refine_search"} ELSE {})
    /\ Frame

Deduplicate ==
    /\ pc = "deduplicate"
    /\ Step("deduplicate", Ok(deduplicate_documents(st)), {})
    /\ Frame

FilterSummary ==
    /\ pc = "filter_summary"
    /\ LET ids == IdsOf(Get(st, "final_results", <<>>))
       IN \E db \in SummaryOutcomes, raised \in BOOLEAN :
           \E relevant_ids \in IF Len(ids) <= 1 \/ raised \/ db # "rows" THEN {<<>>}
                               ELSE RelevantIds(ids) :
             /\ (Len(ids) <= 1 \/ db # "rows") => raised
             /\ Len(ids) <= 1 => db = "rows"
             /\ Step("filter_summary",
                     Ok(filter_documents_by_summary(st, db,
                            [raised |-> raised, relevant_ids |-> relevant_ids])),
                     IF Len(ids) <= 1 THEN {}
                     ELSE IF db = "raise" THEN {"filter_summaries"}
                     ELSE IF db = "rows" /\ raised THEN {"filter_llm"} ELSE {})
    /\ Frame

AskUser ==
    /\ pc = "ask_user"
    /\ Step("ask_user", Ok(handle_ambiguity(st)), {})
    /\ Frame

GenerateAnswer ==
    /\ pc = "generate_answer"
    /\ \E final_ok \in BOOLEAN, bad \in 0..Len(AnswerInput(st)) :
          /\ AnswerMode(st) # "grouped" => bad = 0
          /\ Step("generate_answer", Ok(generate_answer(st, final_ok)),
                  (IF final_ok THEN {} ELSE {"answer_llm"})
                  \cup (IF bad = 0 THEN {} ELSE {"answer_document"}))
          /\ calls' = SynthesisCalls(st, bad, final_ok)
    /\ UNCHANGED <<kind, graph_state_storage, paused, asks, req_sid, store_log>>

\* the event generators after the graph ended: ask_question_agent_stream
\* after the loop over astream, clarify_question_agent after ainvoke returned
Finish ==
    /\ pc = "END"
    /\ IF kind = "ask"
       THEN /\ IF Get(st, "ambiguity_message", NoMessage) # NoMessage
               THEN /\ events' = Append(events, Event("ambiguity", "", TRUE))
                    /\ paused' = paused \cup {req_sid}
               ELSE /\ events' = events \o AnswerEvents(st)
                    /\ UNCHANGED paused
            /\ UNCHANGED <<graph_state_storage, store_log>>
       ELSE /\ events' = events \o AnswerEvents(st)
            /\ graph_state_storage' =
                  [s \in (DOMAIN graph_state_storage) \ {req_sid} |->
                      graph_state_storage[s]]
            /\ paused' = paused \ {req_sid}
            /\ store_log' = IF req_sid \in DOMAIN graph_state_storage
                            THEN Append(store_log, StoreWrite("delete", req_sid))
                            ELSE store_log
    /\ pc' = "done"
    /\ UNCHANGED <<kind, st, trace, failed, calls, asks, req_sid>>

Next ==
    \/ StartAsk
    \/ StartClarify
    \/ IntentRouting
    \/ ToolAnswer
    \/ EnhanceQuery
    \/ EsFulltext
    \/ SqlStructured
    \/ MergeResults
    \/ RefinedFilter
    \/ Deduplicate
    \/ FilterSummary
    \/ AskUser
    \/ GenerateAnswer
    \/ Finish

Spec == Init /\ [][Next]_vars

----------------------------------------------------------------------------
(* Fusion on its own: the states in which merge_results starts, for every   *)
(* pair of channel id sets that are intervals of the document ids (the      *)
(* search index and the mapping table are data of the deployment).          *)

IdSets == {a..b : a \in DocIds, b \in DocIds}

\* the channels after planning, enhancement and both retrieval channels
AfterChannels(es_ids, sql_ids) ==
    LET s0 == ChannelUpdate(initial_state(<<"question">>, 1))
        s1 == ChannelUpdate(intent_routing(s0,
                  [raised |-> FALSE, execution_plan |-> <<RetrievalStep(1)>>]))
        s2 == ChannelUpdate(enhance_retrieval_query(s1, "ok",
                  [raised |-> FALSE, fields |-> FieldsNone, query_rewrite |-> "missing"]))
        s3 == ChannelUpdate(es_fulltext_retrieval(s2,
                  [raised |-> FALSE, hits |-> Ascending(es_ids)]))
        s4 == sql_structured_retrieval(s3, "ok",
                  [raised |-> FALSE, conditions |-> <<>>, category |-> "*"], TRUE).state
    IN ChannelUpdate(Update(s4, [sql_document_ids |-> sql_ids]))

ChannelsTrace == <<"intent_routing", "enhance_query", "es_fulltext", "sql_structured">>

InitFusion ==
    /\ pc = "merge_results"
    /\ kind = "ask"
    /\ \E es_ids \in IdSets, sql_ids \in IdSets :
          /\ Cardinality(es_ids) <= EsSize
          /\ st = AfterChannels(es_ids, sql_ids)
    /\ trace = ChannelsTrace
    /\ events = <<Event("thinking", "start", FALSE)>>
                 \o StepEvents("intent_routing", st)
                 \o StepEvents("es_fulltext", st) \o StepEvents("sql_structured", st)
    /\ failed = {}
    /\ calls = <<>>
    /\ graph_state_storage = <<>>
    /\ paused = {}
    /\ asks = 1
    /\ req_sid = 1
    /\ store_log = <<>>

NextFusion == MergeResults

SpecFusion == InitFusion /\ [][NextFusion]_vars

----------------------------------------------------------------------------
(* Properties *)

Last(xs) == xs[Len(xs)]
IdsAsSet(results) == {results[i].document_id : i \in 1..Len(results)}
IsPrefix(xs, ys) == Len(xs) <= Len(ys) /\ xs = SubSeq(ys, 1, Len(xs))
Ran(node) == node \in Range(trace)
\* a graph run was started by the request and the request is over
RunOver == pc = "done" /\ trace # <<>>

RetrievalPath(last) ==
    <<"enhance_query", "es_fulltext", "sql_structured", "merge_results",
      "refined_filter", "deduplicate", "filter_summary", last>>

\* the node sequences from the entry point to END
CompletePaths ==
    {<<"intent_routing", "tool_answer">>}
    \cup {<<"intent_routing">> \o RetrievalPath(last) :
             last \in {"ask_user", "generate_answer"}}
    \cup {<<"intent_routing", "tool_answer">> \o RetrievalPath(last) :
             last \in {"ask_user", "generate_answer"}}

\* C1: the executed nodes always form the beginning of a path from
\* intent_routing to END (so no node runs twice and control never goes back),
\* tool_answer is followed by enhance_query exactly when need_retrieval is
\* true, and a run that is over has reached END, whatever the external calls
\* returned or raised.
C1_ForwardPathReachesEnd ==
    /\ \E p \in CompletePaths : IsPrefix(trace, p)
    /\ (Len(trace) >= 2 /\ trace[2] = "tool_answer" /\ pc \in {"END", "done"})
           => (Len(trace) > 2 <=> Get(st, "need_retrieval", FALSE))
    /\ RunOver => trace \in CompletePaths

\* C2: a clarification request for a paused session runs the graph from
\* enhance_query, and intent_routing is not executed in the resumed run.
C2_ResumesAtEnhanceQuery ==
    (kind = "clarify" /\ req_sid \in paused /\ pc = "done")
        => (trace # <<>> /\ trace[1] = "enhance_query" /\ ~Ran("intent_routing"))

\* C3: the state of every run that ended with an ambiguity event is held in
\* graph_state_storage under its session_id until a clarification resumes it.
C3_StateSurvivesPause ==
    \A sid \in paused :
        /\ sid \in DOMAIN graph_state_storage
        /\ graph_state_storage[sid].session_id = sid

TerminalEvents == {"ambiguity", "complete", "error"}

\* C4: no event follows an event marked done, a request that is over has
\* emitted exactly one such event, an ambiguity, complete or error event, as
\* its last one, and when the final synthesis completion raised the answer
\* is one of the fixed apology messages, delivered before a complete event.
C4_OneTerminalEvent ==
    /\ \A i \in 1..Len(events) : events[i].done => i = Len(events)
    /\ pc = "done" => /\ events # <<>>
                      /\ Last(events).done
                      /\ Last(events).event \in TerminalEvents
    /\ (pc = "done" /\ "answer_llm" \in failed)
           => /\ st.answer \in ApologyMessages
              /\ Len(events) >= 2
              /\ events[Len(events) - 1].event = "answer"
              /\ Last(events).event = "complete"

C4_Witness ==
    /\ pc = "done"
    /\ "answer_llm" \in failed
    /\ st.answer = "apology_summarize"
    /\ Last(events).event = "complete"

\* C5: when calls of stages other than the final synthesis failed, the
\* request does not end with an error event: the run got to ask_user or
\* generate_answer.
C5_StageFailureNotFatal ==
    (RunOver /\ failed # {} /\ "answer_llm" \notin failed)
        => /\ Last(events).event # "error"
           /\ Ran("ask_user") \/ Ran("generate_answer") \/ Last(trace) = "tool_answer"

\* the calls of the structured channel that failed in this run
SqlFailed == failed \cap {"sql_template", "sql_llm", "sql_query"}

\* C6: when a call of a retrieval channel failed, the channel did not raise:
\* the run went on to the next node, the channel's id set is empty and the
\* other channel's id set is what it was.
C6_ChannelsDegradeToEmpty ==
    /\ (trace # <<>> /\ Last(trace) = "es_fulltext" /\ "es_search" \in failed)
           => /\ pc = "sql_structured"
              /\ st.es_document_ids = {}
              /\ st.sql_document_ids = {}
    /\ (trace # <<>> /\ Last(trace) = "sql_structured" /\ SqlFailed # {})
           => /\ pc = "merge_results"
              /\ st.sql_document_ids = {}
              /\ st.es_document_ids = IdsAsSet(st.es_fulltext_results)

\* C7: when the planning completion raised or held no execution plan, the
\* plan is the single step document_retrieval, tool_results is empty,
\* need_retrieval is true, and the node after intent_routing is enhance_query.
C7_PlannerDegradesToRetrieval ==
    (trace # <<>> /\ ("planner_llm" \in failed \/ st.reasoning = "default"))
        => /\ Len(st.execution_plan) = 1
           /\ st.execution_plan[1].action = "document_retrieval"
           /\ st.tool_results = <<>>
           /\ st.need_retrieval
           /\ Len(trace) = 1 => pc = "enhance_query"
           /\ Len(trace) >= 2 => trace[2] = "enhance_query"

C7_Witness ==
    /\ "planner_llm" \in failed
    /\ Len(trace) >= 2
    /\ trace[2] = "enhance_query"

\* C8: enhance_query is executed only in runs in which planning set
\* need_retrieval to true.
C8_EnhanceOnlyIfNeedRetrieval ==
    Ran("enhance_query") => st.need_retrieval

\* the state after merge_results ran on the id sets A and B
Fused == trace # <<>> /\ Last(trace) = "merge_results"
SetA == st.es_document_ids
SetB == st.sql_document_ids

\* C9: after fusion the strategy is none iff both id sets are empty, es_only
\* iff only the full-text set is non-empty, sql_only iff only the structured
\* set is non-empty, and for two non-empty sets intersection iff they share
\* at least 3 ids, es_primary iff they share 1 or 2, union iff they share
\* none; with none the merged id list and the merged documents are empty.
C9_StrategyTable ==
    Fused =>
        LET n == Cardinality(SetA \cap SetB)
            both == SetA # {} /\ SetB # {}
        IN /\ st.fusion_strategy = "none" <=> (SetA = {} /\ SetB = {})
           /\ st.fusion_strategy = "es_only" <=> (SetA # {} /\ SetB = {})
           /\ st.fusion_strategy = "sql_only" <=> (SetA = {} /\ SetB # {})
           /\ st.fusion_strategy = "intersection" <=> (both /\ n >= 3)
           /\ st.fusion_strategy = "es_primary" <=> (both /\ 1 <= n /\ n <= 2)
           /\ st.fusion_strategy = "union" <=> (both /\ n = 0)
           /\ st.fusion_strategy = "none"
                 => (st.merged_document_ids = <<>> /\ st.merged_documents = <<>>)

C9_Witness ==
    /\ Fused
    /\ st.fusion_strategy = "es_primary"
    /\ Cardinality(SetA \cap SetB) = 2
    /\ Cardinality(SetB) > 2

\* C10 as stated: with exactly one id set empty the fused ids are exactly the
\* ids of the other set, and with at least 3 shared ids they are exactly the
\* shared ids.
C10_FusedIdsAreTheSet ==
    Fused =>
        /\ (SetA = {}) # (SetB = {})
              => Range(st.merged_document_ids) = SetA \cup SetB
        /\ Cardinality(SetA \cap SetB) >= 3
              => Range(st.merged_document_ids) = SetA \cap SetB

\* ids lists S without repeating an id, cut after the first TopK
ListsUpTo(ids, S) ==
    /\ Range(ids) \subseteq S
    /\ Len(ids) = Cardinality(Range(ids))
    /\ Len(ids) = Min(Cardinality(S), TopK)

\* C10, amended: with exactly one id set empty the fused id list holds ids of
\* the other set only, each once, all of them when the set has at most 10 ids
\* and 10 of them otherwise; with at least 3 shared ids the same holds of the
\* set of shared ids.
C10_FusedIdsUpToTen ==
    Fused =>
        /\ (SetA = {}) # (SetB = {})
              => ListsUpTo(st.merged_document_ids, SetA \cup SetB)
        /\ Cardinality(SetA \cap SetB) >= 3
              => ListsUpTo(st.merged_document_ids, SetA \cap SetB)

C10_Witness ==
    /\ Fused
    /\ SetB = {}
    /\ Cardinality(SetA) > TopK
    /\ Len(st.merged_document_ids) = TopK

\* xs holds no element twice
NoRepeat(xs) == \A i \in 1..Len(xs), j \in 1..Len(xs) : xs[i] = xs[j] => i = j

\* xs is ys with some elements left out
RECURSIVE IsSubsequence(_, _)
IsSubsequence(xs, ys) ==
    IF xs = <<>> THEN TRUE
    ELSE IF ys = <<>> THEN FALSE
    ELSE IF Head(xs) = Head(ys) THEN IsSubsequence(Tail(xs), Tail(ys))
    ELSE IsSubsequence(xs, Tail(ys))

\* in xs every element of S comes before every element of T
AllBefore(xs, S, T) ==
    \A i \in 1..Len(xs), j \in 1..Len(xs) : (xs[i] \in S /\ xs[j] \in T) => i < j

\* C11: after fusion the merged id list has at most 10 ids, none twice; the
\* merged documents are documents of that list in the order of the list; with
\* es_primary the shared ids come before the full-text-only ids and no
\* structured-only id is listed; with union the full-text ids come before the
\* structured-only ids.
C11_FusedOrder ==
    Fused =>
        LET ids == st.merged_document_ids
        IN /\ Len(ids) <= 10
           /\ NoRepeat(ids)
           /\ IsSubsequence(st.merged_documents, ids)
           /\ st.fusion_strategy = "es_primary"
                 => /\ AllBefore(ids, SetA \cap SetB, SetA \ SetB)
                    /\ Range(ids) \cap (SetB \ SetA) = {}
           /\ st.fusion_strategy = "union"
                 => AllBefore(ids, SetA, SetB \ SetA)

C11_Witness ==
    /\ Fused
    /\ st.fusion_strategy = "es_primary"
    /\ Len(st.merged_document_ids) = 10
    /\ st.merged_document_ids[1] > st.merged_document_ids[2]
    /\ Len(st.merged_documents) = 9


Refined == trace # <<>> /\ Last(trace) = "refined_filter"

\* C12: after refinement, on every one of its paths, final_results holds at
\* most as many candidates as the fused documents the stage received, and
\* every result id is the id of one of those fused documents.
C12_RefinementShrinks ==
    Refined =>
        /\ Len(st.final_results) <= Len(st.merged_documents)
        /\ IdsAsSet(st.final_results) \subseteq Range(st.merged_documents)


\* the responses of the refinement LLM with no condition and a missing field
AmbiguousResponses ==
    {llm \in RefineLlmResponses :
        ~llm.raised /\ llm.conditions.items = {} /\ llm.missing_fields # <<>>}

\* C13: when the refinement LLM yields no condition and flags missing fields,
\* the stage stores an ambiguity message that names every flagged field and
\* the unfiltered fused set as final_results; deduplication and the relevance
\* filter still run, the graph then goes to ask_user, and the stream ends
\* with an ambiguity event.
C13_AmbiguityPath ==
    /\ (pc = "refined_filter" /\ st.merged_documents # <<>> /\ st.category # "*") =>
          \A llm \in AmbiguousResponses : \A es \in RefineEsResponses(st, llm) :
             LET out == refined_filtering(st, "fields", llm, es)
             IN /\ ~out.raised
                /\ Range(llm.missing_fields) \subseteq Range(out.state.ambiguity_message)
                /\ out.state.final_results
                      = _convert_docs_to_results(st.merged_documents)
    /\ (Ran("refined_filter") /\ st.ambiguity_message # NoMessage) =>
          /\ pc \in {"deduplicate", "filter_summary", "ask_user", "END", "done"}
          /\ \E path \in CompletePaths :
                /\ Last(path) = "ask_user"
                /\ IsPrefix(trace \o IF pc \in {"END", "done"} THEN <<>> ELSE <<pc>>, path)
          /\ pc = "done" =>
                /\ Last(trace) = "ask_user"
                /\ Last(events).event = "ambiguity"
                /\ Last(events).done
                /\ \A i \in 1..(Len(events) - 1) : ~events[i].done

C13_Witness ==
    /\ RunOver
    /\ Last(trace) = "ask_user"
    /\ Last(events).event = "ambiguity"
    /\ Range(<<"author", "year">>) \subseteq Range(st.ambiguity_message)
    /\ Len(st.merged_documents) > Len(st.final_results)


----------------------------------------------------------------------------
(* Deduplication on its own: the states in which deduplicate starts after   *)
(* the wildcard path of refinement, for every short list of documents the   *)
(* fusion may have loaded (list(set) leaves their order open).              *)

MaxList == 3

\* the documents with something to compare: copies, near copies, no text
DedupIds == {1, 2, 3, 4, 5, 6, 11, 12}

CandidateLists ==
    {ids \in UNION {[1..n -> DedupIds] : n \in 0..MaxList} : NoRepeat(ids)}

\* the channels after fusion loaded the documents ids and refinement passed
\* them on
AfterRefinement(ids) ==
    LET s4 == AfterChannels(Range(ids), {})
        s5 == ChannelUpdate(Update(s4,
                  [fusion_strategy |-> IF ids = <<>> THEN "none" ELSE "es_only",
                   merged_document_ids |-> ids, merged_documents |-> ids]))
    IN ChannelUpdate(refined_filtering(s5, "raise",
           [raised |-> TRUE, conditions |-> NoConditions, missing_fields |-> <<>>],
           [raised |-> TRUE, hits |-> <<>>]).state)

InitDedup ==
    /\ pc = "deduplicate"
    /\ kind = "ask"
    /\ \E ids \in CandidateLists : st = AfterRefinement(ids)
    /\ trace = ChannelsTrace \o <<"merge_results", "refined_filter">>
    /\ events = <<Event("thinking", "start", FALSE)>>
                 \o StepEvents("intent_routing", st)
                 \o StepEvents("es_fulltext", st) \o StepEvents("sql_structured", st)
                 \o StepEvents("merge_results", st) \o StepEvents("refined_filter", st)
    /\ failed = {}
    /\ calls = <<>>
    /\ graph_state_storage = <<>>
    /\ paused = {}
    /\ asks = 1
    /\ req_sid = 1
    /\ store_log = <<>>

NextDedup == Deduplicate

SpecDedup == InitDedup /\ [][NextDedup]_vars

Deduped == trace # <<>> /\ Last(trace) = "deduplicate"

\* the list the deduplicator received in SpecDedup
DedupInput == _convert_docs_to_results(st.merged_documents)

\* C14: the deduplicator is idempotent: run on the list it has just stored,
\* it stores the same list again.
C14_DedupIdempotent ==
    Deduped => deduplicate_documents(st).final_results = st.final_results

C14_Witness ==
    /\ Deduped
    /\ Len(st.final_results) >= 2
    /\ Len(st.final_results) < Len(DedupInput)


\* the list xs in the order p, a permutation of its indices
Permuted(xs, p) == [i \in 1..Len(xs) |-> xs[p[i]]]

\* C15: the ids that survive deduplication do not depend on the order of the
\* list: every permutation of the input leaves the same set of ids; and the
\* pairwise test names the same id to remove whichever of two documents is
\* passed first.
C15_DedupOrderInsensitive ==
    Deduped =>
        /\ \A p \in Permutations(1..Len(DedupInput)) :
              IdsAsSet(Deduplicated(Permuted(DedupInput, p)))
                 = IdsAsSet(st.final_results)
        /\ LET fs == WithText(DedupInput)
           IN \A i \in 1..Len(fs), j \in 1..Len(fs) :
                 i # j => should_remove_duplicate(fs[i], fs[j])
                             = should_remove_duplicate(fs[j], fs[i])


\* the pairs of input documents with the same normalized text
SameText(a, b) ==
    /\ a # b
    /\ normalize_text(ContentOf(a)) = normalize_text(ContentOf(b))

Kept(id) == id \in IdsAsSet(st.final_results)

\* C16, as stated: of any two documents of the deduplicator's input with the
\* same normalized text exactly one is removed, and the one kept has the
\* longer raw content.
C16_ExactlyOneCopyRemoved ==
    Deduped =>
        \A a \in Range(st.merged_documents), b \in Range(st.merged_documents) :
            SameText(a, b) =>
                /\ Kept(a) # Kept(b)
                /\ Kept(a) => ContentLen(ContentOf(a)) > ContentLen(ContentOf(b))

\* C16, amended: of any two documents of the input with the same non-empty
\* normalized text at least one is removed, and when one of them is kept its
\* raw content is at least as long as the other's.
C16_CopiesRemoved ==
    Deduped =>
        \A a \in Range(st.merged_documents), b \in Range(st.merged_documents) :
            (SameText(a, b) /\ normalize_text(ContentOf(a)) # <<>>) =>
                /\ ~(Kept(a) /\ Kept(b))
                /\ Kept(a) => ContentLen(ContentOf(a)) >= ContentLen(ContentOf(b))

C16_Witness ==
    /\ Deduped
    /\ st.merged_documents = <<2, 5, 1>>
    /\ IdsOf(st.final_results) = <<2, 5>>


Filtered == trace # <<>> /\ Last(trace) = "filter_summary"

\* C17: the relevance filter adds no id: whatever the LLM answers, every id
\* of filtered_document_ids and every document of filtered_results belongs to
\* the final_results the filter received.
C17_FilterAddsNoId ==
    Filtered =>
        /\ Range(st.filtered_document_ids) \subseteq IdsAsSet(st.final_results)
        /\ Range(st.filtered_results) \subseteq Range(st.final_results)


Answered == trace # <<>> /\ Last(trace) = "generate_answer"

\* C18: answer synthesis over the surviving candidates: when their contents
\* sum to more than the budget, one completion per candidate is requested,
\* each of them whether or not an earlier one failed, and then the single
\* merge completion; when the sum is below the budget exactly one completion
\* is requested; with no candidate exactly one direct completion is requested.
C18_SynthesisBudget ==
    Answered =>
        LET results == AnswerInput(st)
        IN /\ total_length(results) > RagMaxLength =>
                 /\ Len(calls) = Len(results) + 1
                 /\ \A i \in 1..Len(results) : calls[i].prompt = "document"
                 /\ Last(calls).prompt = "merge"
           /\ (results # <<>> /\ total_length(results) < RagMaxLength) =>
                 /\ Len(calls) = 1
                 /\ calls[1].prompt = "single"
           /\ results = <<>> =>
                 /\ Len(calls) = 1
                 /\ calls[1].prompt = "direct"

C18_Witness ==
    /\ Answered
    /\ total_length(AnswerInput(st)) > RagMaxLength
    /\ calls[1].raised
    /\ Len(calls) = Len(AnswerInput(st)) + 1
    /\ Last(calls).prompt = "merge"
    /\ st.answer = "merged_answer"


\* C19: when the plan held tool calls and document retrieval, the completion
\* that produces the final answer is given the partial answer of tool_answer,
\* on the direct, the single-pass and the split-and-merge path alike; and
\* tool_answer stores the final answer itself only when need_retrieval is
\* false.
C19_ToolPartialReachesAnswer ==
    /\ (Answered /\ Ran("tool_answer")) => Last(calls).tool
    /\ (trace # <<>> /\ Last(trace) = "tool_answer" /\ pc # "done") =>
          (st.answer # None <=> ~st.need_retrieval)


\* the fields class RetrievalState groups under the stage of a node
StageFields(node) ==
    CASE node = "intent_routing" ->
            {"execution_plan", "reasoning", "tool_results", "need_retrieval"}
      [] node = "enhance_query" -> {"parsed_fields", "rewritten_query"}
      [] node = "es_fulltext" -> {"es_fulltext_results", "es_document_ids"}
      [] node = "sql_structured" ->
            {"class_template_levels", "category", "category_field_code",
             "sql_extracted_conditions", "sql_document_ids"}
      [] node = "merge_results" ->
            {"merged_document_ids", "merged_documents", "fusion_strategy"}
      [] node = "refined_filter" ->
            {"document_type_fields", "refined_conditions", "final_es_query",
             "final_results"}
      [] node = "filter_summary" -> {"filtered_document_ids", "filtered_results"}
      [] node = "ask_user" -> {"ambiguity_message"}
      [] node = "generate_answer" -> {"answer"}
      [] OTHER -> {}

\* the step changed the channel k
Written(k) ==
    \/ (k \in DOMAIN st) # (k \in DOMAIN st')
    \/ k \in DOMAIN st /\ k \in DOMAIN st' /\ st'[k] # st[k]

\* C20: a graph step changes only fields that RetrievalState groups under the
\* stage of the node that ran; every other field keeps its value.
C20_StagesWriteOwnFields ==
    [][Len(trace') = Len(trace) + 1 =>
          \A k \in SchemaKeys :
              Written(k) => k \in StageFields(Last(trace'))]_vars


\* the enhancer outcomes the fallback is for: no template, no field schema,
\* a completion that raises, a malformed response, an empty or blank rewrite
EnhancerFailed(tpl, resp) ==
    tpl # "ok" \/ resp.raised \/ resp.query_rewrite = "number"

\* C21: on every enhancer failure and on an empty or blank rewrite,
\* rewritten_query is the original query, and on a failure parsed_fields is
\* empty; so the full-text channel searches for a non-empty text whenever the
\* original query is non-empty.
C21_EnhancerFallsBack ==
    /\ pc = "enhance_query" =>
          \A tpl \in TemplateOutcomes, resp \in EnhancerResponses :
             LET out == ChannelUpdate(enhance_retrieval_query(st, tpl, resp))
             IN /\ EnhancerFailed(tpl, resp) =>
                      out.rewritten_query = st.query /\ out.parsed_fields = {}
                /\ (tpl = "ok" /\ resp.query_rewrite \in {"empty", "blank"}) =>
                      out.rewritten_query = st.query
    /\ (pc = "es_fulltext" \/ Ran("es_fulltext")) =>
          (Strip(st.query) # <<>> => Strip(es_query(st)) # <<>>)

C21_Witness ==
    /\ Ran("es_fulltext")
    /\ "enhancer_llm" \in failed
    /\ st.query # <<>>
    /\ es_query(st) = st.query
    /\ st.parsed_fields = {}


\* the calls of refined_filtering that raised in this run
RefinementFailed == failed \cap {"refine_fields", "refine_llm", "refine_search"} # {}

\* C22: when loading the type's fields, the extraction completion or the
\* restricted query raises, final_results is the fused set as it was before
\* refinement, the failure sets no ambiguity_message, and the run goes on to
\* deduplicate.
C22_RefinementFallsBack ==
    (Refined /\ RefinementFailed) =>
        /\ st.final_results = _convert_docs_to_results(st.merged_documents)
        /\ st.ambiguity_message = NoMessage
        /\ pc = "deduplicate"

C22_Witness ==
    /\ Refined
    /\ "refine_search" \in failed
    /\ Len(st.final_results) >= 2
    /\ ~st.final_es_query.none
    /\ pc = "deduplicate"


----------------------------------------------------------------------------
(* Concurrent requests: every request is served by its own event generator  *)
(* on one event loop, which switches between them at each await and yield.  *)
(* Here pc, kind, st, trace, events and req_sid hold one value per request; *)
(* the collaborators answer without failing.                                *)

MaxReq == 3
Requests == 1..MaxReq

\* the question of request r
QuestionOf(r) == <<"question", Digit(r)>>

\* the clarification of request r
ClarificationOf(r) == <<"clarification", Digit(r)>>

\* variant: every request starts from the state of the first one
state_of_first_request(r) == ChannelUpdate(initial_state(QuestionOf(1), 1))

\* initial_state of the ask request r; its session_id is a fresh uuid
RequestState(r) == ChannelUpdate(initial_state(QuestionOf(r), r))

\* what node returns for the channel values state
NodeOutcomes(node, state) ==
    CASE node = "intent_routing" ->
            {Ok(intent_routing(state, [raised |-> FALSE, execution_plan |-> p])) :
                p \in {<<RetrievalStep(1)>>, <<ToolStep(1)>>}}
      [] node = "tool_answer" -> {Ok(generate_tool_answer(state, TRUE))}
      [] node = "enhance_query" ->
            {Ok(enhance_retrieval_query(state, "ok",
                [raised |-> FALSE, fields |-> FieldsYear, query_rewrite |-> "missing"]))}
      [] node = "es_fulltext" ->
            {Ok(es_fulltext_retrieval(state, [raised |-> FALSE, hits |-> <<1, 2>>]))}
      [] node = "sql_structured" ->
            {sql_structured_retrieval(state, "ok",
                [raised |-> FALSE, category |-> "T",
                 conditions |-> <<[code |-> "YEAR", value |-> Scalar("UNKNOWN")]>>],
                TRUE)}
      [] node = "merge_results" ->
            {Ok(merge_retrieval_results(state, 0, 0,
                                        [raised |-> FALSE, rows |-> DocIds]))}
      [] node = "refined_filter" ->
            {refined_filtering(state, "fields", llm, [raised |-> FALSE, hits |-> <<1>>]) :
                llm \in {r \in RefineLlmResponses :
                            ~r.raised /\ r.conditions.dict
                            /\ (r.conditions.items = {} => r.missing_fields # <<>>)}}
      [] node = "deduplicate" -> {Ok(deduplicate_documents(state))}
      [] node = "filter_summary" ->
            {Ok(filter_documents_by_summary(state, "rows",
                [raised |-> FALSE,
                 relevant_ids |-> IdsOf(Get(state, "final_results", <<>>))]))}
      [] node = "ask_user" -> {Ok(handle_ambiguity(state))}
      [] OTHER -> {Ok(generate_answer(state, TRUE))}

InitSessions ==
    /\ pc = [r \in Requests |-> "idle"]
    /\ kind = [r \in Requests |-> "none"]
    /\ st = [r \in Requests |-> <<>>]
    /\ trace = [r \in Requests |-> <<>>]
    /\ events = [r \in Requests |-> <<>>]
    /\ req_sid = [r \in Requests |-> 0]
    /\ failed = {}
    /\ calls = <<>>
    /\ graph_state_storage = <<>>
    /\ paused = {}
    /\ asks = 0
    /\ store_log = <<>>

SessionFrame == UNCHANGED <<failed, calls, paused, asks>>

\* ask_question_agent_stream.event_generator of request r up to the first
\* graph step
AskBegin(r) ==
    /\ pc[r] = "idle"
    /\ kind' = [kind EXCEPT ![r] = "ask"]
    /\ req_sid' = [req_sid EXCEPT ![r] = r]
    /\ st' = [st EXCEPT ![r] = RequestState(r)]
    /\ events' = [events EXCEPT ![r] = <<Event("thinking", "start", FALSE)>>]
    /\ pc' = [pc EXCEPT ![r] = EntryPoint]
    /\ UNCHANGED <<trace, graph_state_storage, store_log>>
    /\ SessionFrame

\* clarify_question_agent.event_generator of request r up to its first yield
ClarifyBegin(r) ==
    /\ pc[r] = "idle"
    /\ kind' = [kind EXCEPT ![r] = "clarify"]
    /\ \E session_id \in Requests :
          /\ req_sid' = [req_sid EXCEPT ![r] = session_id]
          /\ IF session_id \notin DOMAIN graph_state_storage
             THEN /\ events' = [events EXCEPT ![r] = <<ErrorEvent>>]
                  /\ pc' = [pc EXCEPT ![r] = "done"]
                  /\ UNCHANGED <<graph_state_storage, store_log>>
             ELSE LET stored == graph_state_storage[session_id]
                      stored_state ==
                          Update(stored,
                                 [query |-> stored.query \o ClarificationOf(r),
                                  ambiguity_message |-> NoMessage,
                                  es_client |-> "es_client"])
                  IN /\ graph_state_storage' =
                            Update(graph_state_storage,
                                   [s \in {session_id} |-> stored_state])
                     /\ store_log' = Append(store_log, StoreWrite("clarify", session_id))
                     /\ events' = [events EXCEPT
                                      ![r] = <<Event("thinking", "start", FALSE)>>]
                     /\ pc' = [pc EXCEPT ![r] = "invoke"]
    /\ UNCHANGED <<st, trace>>
    /\ SessionFrame

\* one step of the graph run of request r: ainvoke(dict(stored_state)) hands
\* the graph a copy of the stored state, a node returns its update
NodeStep(r) ==
    /\ pc[r] \notin {"idle", "END", "done"}
    /\ IF pc[r] = "invoke"
       THEN /\ st' = [st EXCEPT ![r] =
                        ChannelUpdate(graph_state_storage[req_sid[r]])]
            /\ pc' = [pc EXCEPT ![r] = EntryPoint]
            /\ UNCHANGED <<trace, events>>
       ELSE \E out \in NodeOutcomes(pc[r], st[r]) :
              /\ st' = [st EXCEPT ![r] = ChannelUpdate(out.state)]
              /\ pc' = [pc EXCEPT ![r] = NextNode(pc[r], ChannelUpdate(out.state))]
              /\ trace' = [trace EXCEPT ![r] = Append(trace[r], pc[r])]
              /\ events' = [events EXCEPT ![r] =
                              events[r] \o (IF kind[r] = "ask"
                                            THEN StepEvents(pc[r], out.state)
                                            ELSE <<>>)]
    /\ UNCHANGED <<kind, req_sid, graph_state_storage, store_log>>
    /\ SessionFrame

\* the event generator of request r after its graph run has ended
RequestEnd(r) ==
    /\ pc[r] = "END"
    /\ IF kind[r] = "ask"
       THEN /\ events' = [events EXCEPT ![r] =
                            IF Get(st[r], "ambiguity_message", NoMessage) # NoMessage
                            THEN Append(events[r], Event("ambiguity", "", TRUE))
                            ELSE events[r] \o AnswerEvents(st[r])]
            /\ UNCHANGED <<graph_state_storage, store_log>>
       ELSE /\ events' = [events EXCEPT ![r] = events[r] \o AnswerEvents(st[r])]
            /\ graph_state_storage' =
                  [s \in (DOMAIN graph_state_storage) \ {req_sid[r]} |->
                      graph_state_storage[s]]
            /\ store_log' = IF req_sid[r] \in DOMAIN graph_state_storage
                            THEN Append(store_log, StoreWrite("delete", req_sid[r]))
                            ELSE store_log
    /\ pc' = [pc EXCEPT ![r] = "done"]
    /\ UNCHANGED <<kind, st, trace, req_sid>>
    /\ SessionFrame

NextSessions ==
    \E r \in Requests :
        \/ AskBegin(r)
        \/ ClarifyBegin(r)
        \/ NodeStep(r)
        \/ RequestEnd(r)

SpecSessions == InitSessions /\ [][NextSessions]_vars

\* the number of writes w of the session store that satisfy the test
StoreWrites(op, session_id) ==
    Cardinality({i \in 1..Len(store_log) :
                    store_log[i] = StoreWrite(op, session_id)})

\* the requests whose run holds a Retrieval State
Running(r) == kind[r] = "ask" /\ pc[r] # "idle"

Duplicates(a, b) ==
    should_remove_duplicate(Features(ResultOf(a)), Features(ResultOf(b))) # {}

\* C24: every document the deduplicator removes is, by the pairwise test, a
\* duplicate of a document that is in its output.
C24_RemovedHasSurvivingCopy ==
    Deduped =>
        \A a \in Range(st.merged_documents) :
            ~Kept(a) => \E b \in Range(st.merged_documents) :
                            Kept(b) /\ Duplicates(a, b)


\* positions of the input documents the deduplicator computes features for
Featured(ids) ==
    {i \in 1..Len(ids) : normalize_text(ContentOf(ids[i])) # <<>>}

\* the first position of maximal raw content length among the featured ones
FirstLongest(ids) ==
    CHOOSE i \in Featured(ids) :
        \A j \in Featured(ids) :
            \/ ContentLen(ContentOf(ids[j])) < ContentLen(ContentOf(ids[i]))
            \/ ContentLen(ContentOf(ids[j])) = ContentLen(ContentOf(ids[i])) /\ i <= j

AskEnded == kind = "ask" /\ pc = "done"

\* C26: the references event of a streamed run lists only documents the answer
\* was synthesized from, the documents that passed the relevance filter; when
\* the filter left no document and the answer was written without documents,
\* the run emits no references event.
C26_ReferencesAreAnswerSources ==
    AskEnded =>
        \A i \in 1..Len(events) :
            events[i].event = "references" =>
                /\ AnswerInput(st) # <<>>
                /\ Range(events[i].references) \subseteq IdsAsSet(AnswerInput(st))


Ambiguous == Get(st, "ambiguity_message", NoMessage) # NoMessage

\* the graph ran to its end: the last node returned, no node raised
ReachedEnd ==
    \/ pc = "END"
    \/ pc = "done" /\ trace # <<>> /\ Last(events).event # "error"

\* C27: a run whose ambiguity_message is set never executes generate_answer,
\* requests no synthesis completion and emits neither an answer nor a
\* complete event; a run that reached the end of the graph has a non-null
\* answer or a non-null ambiguity_message, and never both.
C27_AnswerOrAmbiguity ==
    /\ Ambiguous =>
          /\ "generate_answer" \notin Range(trace)
          /\ pc # "generate_answer"
          /\ calls = <<>>
          /\ \A i \in 1..Len(events) : events[i].event \notin {"answer", "complete"}
    /\ ReachedEnd => (Get(st, "answer", None) # None) # Ambiguous

C27_Witness ==
    /\ pc = "done"
    /\ Ambiguous
    /\ "tool_answer" \in Range(trace)
    /\ Last(trace) = "ask_user"
    /\ Last(events).event = "ambiguity"


\* a clarification call for a session the store does not hold
UnknownSessionCall == StartClarify /\ req_sid' \notin DOMAIN graph_state_storage

\* C28: a clarification call whose session_id is no key of the session store
\* emits exactly one event, a terminal error event, executes no pipeline node
\* and leaves the store as it was; an entry leaves the store only in the step
\* that follows the end of a resumed run and emits its complete event, so a
\* call that fails after loading the stored state leaves the entry in place.
C28_ClarifyErrors ==
    /\ [][UnknownSessionCall =>
             /\ events' = <<ErrorEvent>>
             /\ ErrorEvent.done
             /\ pc' = "done"
             /\ trace' = <<>>
             /\ graph_state_storage' = graph_state_storage
             /\ store_log' = store_log]_vars
    /\ [](kind = "clarify" /\ trace = <<>> /\ pc = "done" => events = <<ErrorEvent>>)
    /\ [][\A s \in DOMAIN graph_state_storage :
             s \notin DOMAIN graph_state_storage' =>
                 /\ kind = "clarify" /\ s = req_sid
                 /\ pc = "END" /\ pc' = "done"
                 /\ ~(\E i \in 1..Len(events') : events'[i].event = "error")
                 /\ Last(events').event = "complete"]_vars

\* a clarification for a session whose question ended with the ambiguity
\* event: the store has no entry for it and the call ends with the error event
C28_Witness ==
    /\ kind = "clarify"
    /\ req_sid \in paused
    /\ req_sid \notin DOMAIN graph_state_storage
    /\ pc = "done"
    /\ trace = <<>>
    /\ events = <<ErrorEvent>>


\* the structured channel returned from its query: template found, no failure
SqlReturned ==
    /\ pc = "merge_results"
    /\ st.class_template_levels = LevelsOf(TemplateLevels)
    /\ "sql_query" \notin failed

\* no field value to search by: the parsed fields all have empty values, or
\* there is none and every extracted condition has no value or is UNKNOWN
NoUsableValue(state) ==
    LET parsed_fields == Get(state, "parsed_fields", {})
    IN IF parsed_fields # {}
       THEN \A f \in parsed_fields : ~Truthy(f.value)
       ELSE \A c \in Range(state.sql_extracted_conditions) :
                ~Truthy(c.value) \/ IsUnknown(c.value)

\* the extracted conditions without those whose value is UNKNOWN
Known(conditions) == SelectSeq(conditions, LAMBDA c : ~IsUnknown(c.value))

\* C29: with no usable field value the structured channel applies no field
\* predicate and returns the ids of all documents mapped to the template; a
\* condition whose value is UNKNOWN contributes no predicate: the structured
\* channel returns what it returns without that condition, and the refinement
\* query has no clause for it.
C29_UnknownIsNoPredicate ==
    /\ SqlReturned =>
          /\ NoUsableValue(st) => st.sql_document_ids = MappedDocs
          /\ st.sql_document_ids =
                SelectMapped(conditions_clauses(Get(st, "parsed_fields", {}),
                                                Known(st.sql_extracted_conditions)))
    /\ st # <<>> /\ ~st.final_es_query.none =>
          \A c \in st.refined_conditions.items :
              IsUnknown(c.value) =>
                  \A m \in st.final_es_query.must : m.field # c.field

C29_Witness ==
    /\ SqlReturned
    /\ Get(st, "parsed_fields", {}) = {}
    /\ \E i \in 1..Len(st.sql_extracted_conditions) :
          IsUnknown(st.sql_extracted_conditions[i].value)
    /\ NoUsableValue(st)
    /\ st.sql_document_ids = MappedDocs


\* the run took the tool_answer branch after planning
TookToolBranch == pc = "tool_answer" \/ "tool_answer" \in Range(trace)

\* C30: a streamed run emits the execution_plan event exactly once, right
\* after the thinking event and before every stage event, and the event's mode
\* is tool_calling exactly when the plan has a tool_call step, that is when
\* the run takes the tool_answer branch, and document_retrieval otherwise.
C30_ExecutionPlanEvent ==
    kind = "ask" /\ trace # <<>> =>
        /\ Cardinality({i \in 1..Len(events) : events[i].event = "execution_plan"}) = 1
        /\ events[1].event = "thinking"
        /\ events[2].event = "execution_plan"
        /\ \A i \in 1..Len(events) :
              events[i].event \in {"stage_start", "stage_complete"} => i > 2
        /\ events[2].stage = (IF TookToolBranch THEN "tool_calling"
                              ELSE "document_retrieval")

====
